---------------------------- MODULE Spec2Model ----------------------------
(***************************************************************************)
(* A model of the file-encryption service: key parsing (app/config.py),    *)
(* the streaming cipher engine (app/crypto.py) and the HTTP handlers that  *)
(* keep ciphertext and metadata in the storage directory                   *)
(* (app/routes/files.py).                                                  *)
(*                                                                         *)
(* Bytes are the integers 0..255; a byte string is a sequence of bytes; a  *)
(* text string is a sequence of Unicode code points.                       *)
(*                                                                         *)
(* Library primitives that cannot be evaluated here are idealised:         *)
(*   - AES is a keyed permutation of 16-byte blocks (BlockEnc/BlockDec);   *)
(*     CBC chaining, buffering and finalisation follow the library.        *)
(*   - HKDF is an injective expansion of the input key material;           *)
(*   - HMAC is the perfect MAC: its digest is the transcript (key and      *)
(*     message), so two digests agree exactly when key and message agree.  *)
(***************************************************************************)
EXTENDS Integers, Sequences, FiniteSets, TLC

\* ------------------------------------------------------------------ bounds

\* Largest chunk size a streaming session is run with; it stands for the
\* 64 KiB default of the engine, scaled to plaintexts of a few blocks.
ChunkSize == 17

\* Requests issued in one run of the service.
MaxReqs == 3

\* Storage faults (a failing open, read, write or remove) in one run.
MaxFaults == 2

\* Artifact ids that requests name, and uploads accepted in one run of the
\* two-upload service.
MaxIds == 2

\* Uploads accepted in one run of the full service.
MaxUploads == 1

\* ------------------------------------------------------- program constants

\* PKCS7(128) and AES: the block size in bytes.
BlockSize == 16

\* The length of a master secret and of each derived key.
KeyLen == 32

\* ------------------------------------------------------------------- bytes

Min2(a, b) == IF a < b THEN a ELSE b

Max2(a, b) == IF a > b THEN a ELSE b

\* s[a..b] as Python's s[a-1:b] (empty when the range is empty).
Slice(s, a, b) == IF b < a THEN << >> ELSE SubSeq(s, a, b)

Take(s, n) == Slice(s, 1, Min2(n, Len(s)))

Drop(s, n) == Slice(s, n + 1, Len(s))

Repeat(x, n) == [i \in 1..n |-> x]

\* Bitwise exclusive or of two bytes.
Xor8(a, b) ==
    ((a + b) % 2)
    + 2 * (((a \div 2) + (b \div 2)) % 2)
    + 4 * (((a \div 4) + (b \div 4)) % 2)
    + 8 * (((a \div 8) + (b \div 8)) % 2)
    + 16 * (((a \div 16) + (b \div 16)) % 2)
    + 32 * (((a \div 32) + (b \div 32)) % 2)
    + 64 * (((a \div 64) + (b \div 64)) % 2)
    + 128 * (((a \div 128) + (b \div 128)) % 2)

XorSeq(x, y) == [i \in 1..Len(x) |-> Xor8(x[i], y[i])]

\* -------------------------------------------------- text encodings of bytes

\* str.encode("utf-8") for code points below 2048.
RECURSIVE Utf8(_)
Utf8(s) ==
    IF Len(s) = 0 THEN << >>
    ELSE IF Len(s) = 1 THEN
        (IF s[1] < 128 THEN <<s[1]>> ELSE <<192 + (s[1] \div 64), 128 + (s[1] % 64)>>)
    ELSE Utf8(SubSeq(s, 1, Len(s) \div 2)) \o Utf8(SubSeq(s, (Len(s) \div 2) + 1, Len(s)))

\* The character of a 6-bit value in the URL-safe alphabet (A-Z a-z 0-9 - _).
B64Char(v) ==
    IF v < 26 THEN 65 + v
    ELSE IF v < 52 THEN 97 + (v - 26)
    ELSE IF v < 62 THEN 48 + (v - 52)
    ELSE IF v = 62 THEN 45
    ELSE 95

\* The 6-bit value of a byte after urlsafe_b64decode's translation of '-' and
\* '_' to '+' and '/': both alphabets are accepted; 64 marks a byte outside.
B64Val(c) ==
    IF c >= 65 /\ c <= 90 THEN c - 65
    ELSE IF c >= 97 /\ c <= 122 THEN c - 97 + 26
    ELSE IF c >= 48 /\ c <= 57 THEN c - 48 + 52
    ELSE IF c = 43 \/ c = 45 THEN 62
    ELSE IF c = 47 \/ c = 95 THEN 63
    ELSE 64

B64Pad == 61

IsB64Data(c) == B64Val(c) # 64

\* base64.urlsafe_b64encode(data).decode("utf-8"): the i-th character encodes
\* six bits of the three bytes of its group, or is padding.
urlsafe_b64encode(data) ==
    [i \in 1..(4 * ((Len(data) + 2) \div 3)) |->
        LET g == 3 * ((i - 1) \div 4)
            b0 == data[g + 1]
            b1 == IF g + 2 <= Len(data) THEN data[g + 2] ELSE 0
            b2 == IF g + 3 <= Len(data) THEN data[g + 3] ELSE 0
        IN  CASE (i - 1) % 4 = 0 -> B64Char(b0 \div 4)
              [] (i - 1) % 4 = 1 -> B64Char((b0 % 4) * 16 + (b1 \div 16))
              [] (i - 1) % 4 = 2 ->
                    IF g + 2 > Len(data) THEN B64Pad
                    ELSE B64Char((b1 % 16) * 4 + (b2 \div 64))
              [] OTHER -> IF g + 3 > Len(data) THEN B64Pad ELSE B64Char(b2 % 64)]

\* The data characters before position i.
B64DataBefore(u, i) == Cardinality({j \in 1..(i - 1) : IsB64Data(u[j])})

\* The positions at which binascii.a2b_base64 (not strict) ends the parse: a
\* pad that completes the padding of its quad, that is the first pad after
\* three data characters of a quad or the second after two.
B64Stops(u) ==
    {i \in 1..Len(u) :
        /\ u[i] = B64Pad
        /\ \/ B64DataBefore(u, i) % 4 = 3
           \/ /\ B64DataBefore(u, i) % 4 = 2
              /\ \E j \in 1..(i - 1) :
                    u[j] = B64Pad /\ \A k \in (j + 1)..(i - 1) : ~IsB64Data(u[k])}

\* The bytes of a sequence of 6-bit values: three for every four, and one or
\* two for a last quad of two or three.
B64Bytes(v) ==
    [j \in 1..(3 * (Len(v) \div 4) + Max2((Len(v) % 4) - 1, 0)) |->
        LET g == 4 * ((j - 1) \div 3)
        IN  CASE (j - 1) % 3 = 0 -> v[g + 1] * 4 + (v[g + 2] \div 16)
              [] (j - 1) % 3 = 1 -> (v[g + 2] % 16) * 16 + (v[g + 3] \div 4)
              [] OTHER -> (v[g + 3] % 4) * 64 + v[g + 4]]

\* binascii.a2b_base64 without strict mode, as base64.b64decode runs it:
\* bytes outside the alphabet are skipped, a complete pad sequence ends the
\* parse, and data characters left over at the end are an error.
B64Scan(u) ==
    LET Parse(stops) ==
            LET end == IF stops = {} THEN Len(u) + 1
                       ELSE CHOOSE i \in stops : \A j \in stops : i <= j
                Values(chars) == [i \in 1..Len(chars) |-> B64Val(chars[i])]
                Result(v) ==
                    IF stops = {} /\ Len(v) % 4 # 0 THEN [ok |-> FALSE, val |-> << >>]
                    ELSE [ok |-> TRUE, val |-> B64Bytes(v)]
            IN  Result(Values(SelectSeq(Take(u, end - 1), IsB64Data)))
    IN  Parse(B64Stops(u))

\* base64.urlsafe_b64decode(data.encode("utf-8")): [ok, val]; ok is FALSE
\* where the library raises.
urlsafe_b64decode(data) == B64Scan(Utf8(data))

HexDigit(v) == IF v < 10 THEN 48 + v ELSE 97 + (v - 10)

\* 16 marks a character that is no hexadecimal digit.
HexVal(c) ==
    IF c >= 48 /\ c <= 57 THEN c - 48
    ELSE IF c >= 97 /\ c <= 102 THEN c - 97 + 10
    ELSE IF c >= 65 /\ c <= 70 THEN c - 65 + 10
    ELSE 16

\* bytes.hex()
Hex(data) ==
    [i \in 1..(2 * Len(data)) |->
        IF i % 2 = 1 THEN HexDigit(data[(i + 1) \div 2] \div 16)
        ELSE HexDigit(data[i \div 2] % 16)]

IsAsciiSpace(c) == c \in {32, 9, 10, 11, 12, 13}

NotAsciiSpace(c) == ~IsAsciiSpace(c)

\* bytes.fromhex(value): ASCII whitespace is skipped between pairs of digits,
\* so every run of other characters must be pairs of digits; anything else
\* raises.
FromHex(value) ==
    LET runStarts == {i \in 1..Len(value) :
                        NotAsciiSpace(value[i]) /\ (i = 1 \/ IsAsciiSpace(value[i - 1]))}
        before(i) == Cardinality({j \in 1..(i - 1) : NotAsciiSpace(value[j])})
        Pairs(d) ==
            IF \/ Len(d) % 2 # 0
               \/ \E i \in 1..Len(d) : HexVal(d[i]) = 16
               \/ \E i \in runStarts : before(i) % 2 # 0
            THEN [ok |-> FALSE, val |-> << >>]
            ELSE [ok |-> TRUE,
                  val |-> [j \in 1..(Len(d) \div 2) |->
                              HexVal(d[2 * j - 1]) * 16 + HexVal(d[2 * j])]]
    IN  Pairs(SelectSeq(value, NotAsciiSpace))

\* ----------------------------------------------------------- app/config.py

\* The value None of an optional string: no text string holds a negative
\* code point.
None == <<-1>>

\* A parse_master_key that tries the raw text first, then hexadecimal, then
\* base64.
parse_master_key_raw_first(value) ==
    LET Pick(b64, hex, raw) ==
            IF Len(raw) = KeyLen THEN [ok |-> TRUE, val |-> raw, tried |-> <<"raw">>]
            ELSE IF hex.ok /\ Len(hex.val) = KeyLen
            THEN [ok |-> TRUE, val |-> hex.val, tried |-> <<"raw", "hex">>]
            ELSE IF b64.ok /\ Len(b64.val) = KeyLen
            THEN [ok |-> TRUE, val |-> b64.val, tried |-> <<"raw", "hex", "base64">>]
            ELSE [ok |-> FALSE, val |-> << >>, tried |-> <<"raw", "hex", "base64">>]
    IN  IF value = None \/ value = << >> THEN [ok |-> FALSE, val |-> << >>, tried |-> << >>]
        ELSE Pick(urlsafe_b64decode(value), FromHex(value), Utf8(value))

\* parse_master_key(value): [ok, val, tried]; ok is FALSE where it raises
\* ValueError; tried lists the decodings attempted, in the order of the try
\* blocks of lines 17-22 and 24-29 and of the raw text of lines 31-33, up to
\* the one that returned.
parse_master_key(value) ==
    LET Pick(b64, hex, raw) ==
            IF b64.ok /\ Len(b64.val) = KeyLen
            THEN [ok |-> TRUE, val |-> b64.val, tried |-> <<"base64">>]
            ELSE IF hex.ok /\ Len(hex.val) = KeyLen
            THEN [ok |-> TRUE, val |-> hex.val, tried |-> <<"base64", "hex">>]
            ELSE IF Len(raw) = KeyLen
            THEN [ok |-> TRUE, val |-> raw, tried |-> <<"base64", "hex", "raw">>]
            ELSE [ok |-> FALSE, val |-> << >>, tried |-> <<"base64", "hex", "raw">>]
    IN  IF value = None \/ value = << >> THEN [ok |-> FALSE, val |-> << >>, tried |-> << >>]
        ELSE Pick(urlsafe_b64decode(value), FromHex(value), Utf8(value))

\* get_master_key(override_key) under the environment value env_val:
\* [ok, val, status]; a bad override raises ValueError (the handlers answer
\* 400), a missing or bad environment key raises HTTPException 500.
get_master_key(override_key, env_val) ==
    LET Parsed(r, bad) ==
            [ok |-> r.ok, val |-> r.val, kind |-> IF r.ok THEN "ok" ELSE "InvalidKey",
             status |-> IF r.ok THEN 200 ELSE bad]
    IN  IF override_key # None /\ override_key # << >> THEN
            Parsed(parse_master_key(override_key), 400)
        ELSE IF env_val = None \/ env_val = << >> THEN
            [ok |-> FALSE, val |-> << >>, kind |-> "MissingKey", status |-> 500]
        ELSE
            Parsed(parse_master_key(env_val), 500)

\* ----------------------------------------------------------- app/crypto.py

\* HKDF-SHA256(salt=None, info="file-server:aes256cbc+mac", length=64):
\* idealised as an expansion that is injective on secrets of one length;
\* secrets of every length are accepted, as by the library.
HkdfExpand(ikm) ==
    [j \in 1..(2 * KeyLen) |->
        IF Len(ikm) = 0 THEN (j * 7) % 256
        ELSE (ikm[((j - 1) % Len(ikm)) + 1] + (IF j <= KeyLen THEN 1 ELSE 2)) % 256]

\* derive_encryption_and_mac_keys(master_key) = (okm[:32], okm[32:64])
derive_encryption_and_mac_keys(master_key) ==
    LET okm == HkdfExpand(master_key)
    IN  <<SubSeq(okm, 1, KeyLen), SubSeq(okm, KeyLen + 1, 2 * KeyLen)>>

\* hmac.HMAC(mac_key, SHA256): a running MAC is the key and the data fed so far.
HmacNew(mac_key) == [key |-> mac_key, data |-> << >>]

HmacUpdate(h, part) == [h EXCEPT !.data = @ \o part]

\* The sum, modulo 256, of the bytes of t at positions i, i + 8, i + 16, ...
RECURSIVE StrideSum(_, _)
StrideSum(t, i) == IF i > Len(t) THEN 0 ELSE (t[i] + StrideSum(t, i + 8)) % 256

\* h.finalize(): the digest of a perfect MAC. It ends with the transcript
\* <<len(key)>> key data, so that it determines key and data, and begins with
\* eight bytes that each depend on all of the transcript, so that a prefix of
\* it still tells the secrets of the model apart.
HmacFinalize(h) ==
    LET Digest(t) == [i \in 1..8 |-> StrideSum(t, i)] \o t
    IN  Digest(<<Len(h.key)>> \o h.key \o h.data)

\* A verification that accepts every tag: what h.verify(tag) must not be.
HmacAccept(h, tag) == TRUE

\* h.verify(tag): TRUE where the library returns, FALSE where it raises
\* InvalidSignature.
HmacVerify(h, tag) == HmacFinalize(h) = tag

\* b"file-server:key-fingerprint:v1"
FingerprintLabel ==
    <<102, 105, 108, 101, 45, 115, 101, 114, 118, 101, 114, 58, 107, 101, 121, 45,
      102, 105, 110, 103, 101, 114, 112, 114, 105, 110, 116, 58, 118, 49>>

\* hmac_sha256(mac_key, *parts) for one part; ok is FALSE where it raises.
hmac_sha256(mac_key, part) ==
    IF Len(mac_key) = 0 THEN [ok |-> FALSE, val |-> << >>]
    ELSE [ok |-> TRUE, val |-> HmacFinalize(HmacUpdate(HmacNew(mac_key), part))]

\* key_fingerprint(master_key) = tag.hex()[:16]
key_fingerprint(master_key) ==
    LET mac_key == derive_encryption_and_mac_keys(master_key)[2]
    IN  Take(Hex(hmac_sha256(mac_key, FingerprintLabel).val), 16)

\* algorithms.AES(enc_key) on one block: a keyed permutation of the blocks.
BlockEnc(k, b) ==
    [i \in 1..BlockSize |-> (b[(i % BlockSize) + 1] + k[i] + 3 * k[i + BlockSize]) % 256]

\* Its inverse.
BlockDec(k, c) ==
    [j \in 1..BlockSize |->
        LET i == IF j = 1 THEN BlockSize ELSE j - 1
        IN  (c[i] + 2 * 256 * 4 - k[i] - 3 * k[i + BlockSize]) % 256]

\* Cipher(AES(enc_key), CBC(iv)).encryptor(): the chaining block and the bytes
\* of an incomplete block.
CipherNew(enc_key, iv) == [key |-> enc_key, prev |-> iv, buf |-> << >>]

RECURSIVE CbcEncBlocks(_, _, _)
CbcEncBlocks(k, prev, data) ==
    IF Len(data) < BlockSize THEN << >>
    ELSE LET c == BlockEnc(k, XorSeq(SubSeq(data, 1, BlockSize), prev))
         IN  c \o CbcEncBlocks(k, c, Drop(data, BlockSize))

RECURSIVE CbcDecBlocks(_, _, _)
CbcDecBlocks(k, prev, data) ==
    IF Len(data) < BlockSize THEN << >>
    ELSE LET c == SubSeq(data, 1, BlockSize)
         IN  XorSeq(BlockDec(k, c), prev) \o CbcDecBlocks(k, c, Drop(data, BlockSize))

\* The last whole block of prev \o full, the next chaining value.
LastBlock(prev, full) ==
    IF Len(full) = 0 THEN prev ELSE SubSeq(full, Len(full) - BlockSize + 1, Len(full))

\* An encryptor that does not carry the chaining value from one call to the
\* next.
EncryptorUpdateUnchained(c, data) ==
    LET all == c.buf \o data
        n == (Len(all) \div BlockSize) * BlockSize
    IN  [ctx |-> [c EXCEPT !.buf = Drop(all, n)],
         out |-> CbcEncBlocks(c.key, c.prev, Take(all, n))]

\* encryptor.update(data): every whole block is encrypted, the rest is kept.
EncryptorUpdate(c, data) ==
    LET all == c.buf \o data
        n == (Len(all) \div BlockSize) * BlockSize
        Emit(out) ==
            [ctx |-> [c EXCEPT !.prev = LastBlock(c.prev, out), !.buf = Drop(all, n)],
             out |-> out]
    IN  Emit(CbcEncBlocks(c.key, c.prev, Take(all, n)))

\* decryptor.update(data): likewise (the library's own padding is off).
DecryptorUpdate(c, data) ==
    LET all == c.buf \o data
        n == (Len(all) \div BlockSize) * BlockSize
        full == Take(all, n)
    IN  [ctx |-> [c EXCEPT !.prev = LastBlock(c.prev, full), !.buf = Drop(all, n)],
         out |-> CbcDecBlocks(c.key, c.prev, full)]

\* encryptor.finalize() / decryptor.finalize(): raises on an incomplete block,
\* returns b"" otherwise.
CipherFinalizeOk(c) == Len(c.buf) = 0

\* A padder that holds back the last whole block, as an unpadder does.
PadderUpdateHoldBlock(buf, data) ==
    LET all == buf \o data
        n == Max2((Len(all) \div BlockSize) - 1, 0) * BlockSize
    IN  [buf |-> Drop(all, n), out |-> Take(all, n)]

\* padding.PKCS7(128).padder().update(data) on the buffer buf.
PadderUpdate(buf, data) ==
    LET all == buf \o data
        n == (Len(all) \div BlockSize) * BlockSize
    IN  [buf |-> Drop(all, n), out |-> Take(all, n)]

\* A padder that adds nothing to a whole number of blocks: what
\* padder.finalize() must not be.
PadderFinalizeUnlessAligned(buf) ==
    IF Len(buf) = 0 THEN << >> ELSE buf \o Repeat(BlockSize - Len(buf), BlockSize - Len(buf))

\* padder.finalize()
PadderFinalize(buf) == buf \o Repeat(BlockSize - Len(buf), BlockSize - Len(buf))

\* An unpadder that releases every whole block at once.
UnpadderUpdateEager(buf, data) ==
    LET all == buf \o data
        n == (Len(all) \div BlockSize) * BlockSize
    IN  [buf |-> Drop(all, n), out |-> Take(all, n)]

\* padding.PKCS7(128).unpadder().update(data): the last whole block is kept.
UnpadderUpdate(buf, data) ==
    LET all == buf \o data
        n == Max2((Len(all) \div BlockSize) - 1, 0) * BlockSize
    IN  [buf |-> Drop(all, n), out |-> Take(all, n)]

\* unpadder.finalize(): ok is FALSE where it raises "Invalid padding bytes."
UnpadderFinalize(buf) ==
    IF Len(buf) # BlockSize THEN [ok |-> FALSE, out |-> << >>]
    ELSE LET n == buf[BlockSize]
         IN  IF n < 1 \/ n > BlockSize \/ \E i \in (BlockSize - n + 1)..BlockSize : buf[i] # n
             THEN [ok |-> FALSE, out |-> << >>]
             ELSE [ok |-> TRUE, out |-> Take(buf, BlockSize - n)]

\* encrypt_bytes_aes256_cbc(plaintext, enc_key) with the IV it drew.
encrypt_bytes_aes256_cbc(plaintext, enc_key, iv) ==
    LET Padded(p) == p.out \o PadderFinalize(p.buf)
    IN  EncryptorUpdate(CipherNew(enc_key, iv), Padded(PadderUpdate(<< >>, plaintext))).out

\* decrypt_bytes_aes256_cbc(ciphertext, enc_key, iv): ok is FALSE where it raises.
decrypt_bytes_aes256_cbc(ciphertext, enc_key, iv) ==
    LET Unpad(d) ==
            LET Outcome(u, f) ==
                    IF Len(enc_key) # KeyLen \/ ~CipherFinalizeOk(d.ctx) \/ ~f.ok
                    THEN [ok |-> FALSE, val |-> << >>]
                    ELSE [ok |-> TRUE, val |-> u.out \o f.out]
                Fin(u) == Outcome(u, UnpadderFinalize(u.buf))
            IN  Fin(UnpadderUpdate(<< >>, d.out))
    IN  Unpad(DecryptorUpdate(CipherNew(enc_key, iv), ciphertext))

\* The session of encrypt_fileobj_to_path after line 93: cipher, padder and
\* MAC seeded with the IV, and the two counters.
EncSession(enc_key, mac_key, iv) ==
    [cipher |-> CipherNew(enc_key, iv), pad |-> << >>,
     h |-> HmacUpdate(HmacNew(mac_key), iv), total_in |-> 0, total_out |-> 0]

\* A pass that feeds the MAC the padded plaintext instead of the ciphertext.
EncChunkMacPlain(s, chunk) ==
    LET Padded(p) ==
            LET Written(e) ==
                    [sess |-> [cipher |-> e.ctx, pad |-> p.buf, h |-> HmacUpdate(s.h, p.out),
                               total_in |-> s.total_in + Len(chunk),
                               total_out |-> s.total_out + Len(e.out)],
                     out |-> e.out]
            IN  Written(EncryptorUpdate(s.cipher, p.out))
    IN  Padded(PadderUpdate(s.pad, chunk))

\* One pass of the loop of encrypt_fileobj_to_path on a non-empty chunk:
\* the session after it and the bytes written to the file.
EncChunk(s, chunk) ==
    LET Padded(p) ==
            LET Written(e) ==
                    [sess |-> [cipher |-> e.ctx, pad |-> p.buf, h |-> HmacUpdate(s.h, e.out),
                               total_in |-> s.total_in + Len(chunk),
                               total_out |-> s.total_out + Len(e.out)],
                     out |-> e.out]
            IN  Written(EncryptorUpdate(s.cipher, p.out))
    IN  Padded(PadderUpdate(s.pad, chunk))

\* A finalisation that counts and authenticates the last bytes but does not
\* write them.
EncFinalUnwritten(s) ==
    LET Written(e) ==
            [ok |-> CipherFinalizeOk(e.ctx), out |-> << >>,
             total_in |-> s.total_in, total_out |-> s.total_out + Len(e.out),
             tag |-> HmacFinalize(HmacUpdate(s.h, e.out))]
    IN  Written(EncryptorUpdate(s.cipher, PadderFinalize(s.pad)))

\* Lines 111-118: the padder and the cipher are finalised, the last bytes
\* written and the MAC finalised.
EncFinal(s) ==
    LET Written(e) ==
            [ok |-> CipherFinalizeOk(e.ctx), out |-> e.out,
             total_in |-> s.total_in, total_out |-> s.total_out + Len(e.out),
             tag |-> HmacFinalize(HmacUpdate(s.h, e.out))]
    IN  Written(EncryptorUpdate(s.cipher, PadderFinalize(s.pad)))

\* The session of decrypt_file_to_path after line 141; verified counts the
\* calls of h.verify.
DecSession(enc_key, mac_key, iv) ==
    [cipher |-> CipherNew(enc_key, iv), unpad |-> << >>,
     h |-> HmacUpdate(HmacNew(mac_key), iv), total_in |-> 0, total_out |-> 0,
     verified |-> 0]

\* One pass of the loop of decrypt_file_to_path on a non-empty chunk.
DecChunk(s, chunk) ==
    LET Decrypted(d) ==
            LET Written(u) ==
                    [sess |-> [cipher |-> d.ctx, unpad |-> u.buf, h |-> HmacUpdate(s.h, chunk),
                               total_in |-> s.total_in + Len(chunk),
                               total_out |-> s.total_out + Len(u.out),
                               verified |-> s.verified],
                     out |-> u.out]
            IN  Written(UnpadderUpdate(s.unpad, d.out))
    IN  Decrypted(DecryptorUpdate(s.cipher, chunk))

\* A finalisation that returns without comparing the MAC.
DecFinalUnverified(s, expected_tag) ==
    LET Outcome(f) ==
            IF ~CipherFinalizeOk(s.cipher) THEN
                [err |-> "length", out |-> << >>, total_in |-> s.total_in,
                 total_out |-> s.total_out, verified |-> s.verified]
            ELSE IF ~f.ok THEN
                [err |-> "padding", out |-> << >>, total_in |-> s.total_in,
                 total_out |-> s.total_out, verified |-> s.verified]
            ELSE
                [err |-> "none", out |-> f.out, total_in |-> s.total_in,
                 total_out |-> s.total_out + Len(f.out), verified |-> s.verified]
    IN  Outcome(UnpadderFinalize(s.unpad))

\* Lines 160-172: the cipher and the unpadder are finalised, the tail written
\* and the MAC verified. err names the step that raised: "length" (line 160),
\* "padding" (line 166), "mac" (line 172) or "none"; out is what was written
\* to the file before that, total_out the bytes written in all, and verified
\* the calls of h.verify made.
DecFinal(s, expected_tag) ==
    LET Outcome(f) ==
            IF ~CipherFinalizeOk(s.cipher) THEN
                [err |-> "length", out |-> << >>, total_in |-> s.total_in,
                 total_out |-> s.total_out, verified |-> s.verified]
            ELSE IF ~f.ok THEN
                [err |-> "padding", out |-> << >>, total_in |-> s.total_in,
                 total_out |-> s.total_out, verified |-> s.verified]
            ELSE
                [err |-> IF HmacVerify(s.h, expected_tag) THEN "none" ELSE "mac",
                 out |-> f.out, total_in |-> s.total_in,
                 total_out |-> s.total_out + Len(f.out), verified |-> s.verified + 1]
    IN  Outcome(UnpadderFinalize(s.unpad))

\* ------------------------------------------------------------------- state

VARIABLES
    hk,         \* the key-parsing run: the input, the result, the derived keys
    hs,         \* the engine run: one encrypt session, then one decrypt session
    env,        \* FILE_ENCRYPTION_KEY: a text string or None
    dirExists,  \* whether the storage directory exists
    names,      \* the storage directory: path -> inode number, 0 when absent
    inodes,     \* the files' contents, by inode number
    procs,      \* the requests in progress: each handler's locals and position
    nreq,       \* requests started so far
    nfault,     \* storage faults injected so far
    art,        \* history: per id, the secret and plaintext of its encrypt
    ev          \* the request that returned in the last step, and its response

vars == <<hk, hs, env, dirExists, names, inodes, procs, nreq, nfault, art, ev>>

\* ------------------------------------------------------- secrets and inputs

\* Two master secrets.
K1 == [i \in 1..KeyLen |-> (i * 37 + 11) % 256]

K2 == [i \in 1..KeyLen |-> 255 - i]

\* A secret that differs from K1 in one byte.
K3 == [K1 EXCEPT ![15] = (@ + 10) % 256]

\* Printable ASCII text of n characters, one that is neither hexadecimal nor
\* base64 of 32 bytes.
RawText(n) == [i \in 1..n |-> 33 + i]

\* Letters only: text of the base64 alphabet.
Letters(n) == [i \in 1..n |-> 97 + (i % 26)]

InsertAt(s, i, c) == Take(s, i - 1) \o <<c>> \o Drop(s, i - 1)

DeleteAt(s, i) == Take(s, i - 1) \o Drop(s, i)

\* Characters inserted into a key text: space, newline, '!', '=', 'g', '+',
\* '0' and e-acute.
EditChars == {32, 10, 33, 61, 103, 43, 48, 233}

\* The texts key parsing is run on: the three encodings of secrets of 31, 32
\* and 33 bytes, each as it is, with one character inserted anywhere, and
\* with one character deleted anywhere; the empty text and None.
KeyTexts ==
    LET bases == UNION {
            {urlsafe_b64encode(Take(k, n)), Hex(Take(k, n))} :
                k \in {K1 \o <<7>>, K2 \o <<250>>}, n \in {KeyLen - 1, KeyLen, KeyLen + 1}}
            \cup {RawText(n) : n \in {KeyLen - 1, KeyLen, KeyLen + 1}}
            \cup {Letters(n) : n \in {KeyLen - 1, KeyLen, KeyLen + 1}}
    IN  bases
        \cup {InsertAt(s, i, c) : s \in bases, i \in 1..(2 * KeyLen + 3), c \in EditChars}
        \cup {DeleteAt(s, i) : s \in bases, i \in 1..(2 * KeyLen + 2)}
        \cup {<< >>, None}

\* ---------------------------------------------------------- key-parsing run

KeyIdle == [pc |-> "idle"]

\* parse_master_key on one text.
KeyParse ==
    /\ hk.pc = "idle"
    /\ \E s \in KeyTexts :
        hk' = [pc |-> "parsed", input |-> s, out |-> parse_master_key(s)]
    /\ UNCHANGED <<hs, env, dirExists, names, inodes, procs, nreq, nfault, art, ev>>

\* derive_encryption_and_mac_keys and key_fingerprint on the parsed secret.
KeyDerive ==
    /\ hk.pc = "parsed"
    /\ hk.out.ok
    /\ hk' = [hk EXCEPT !.pc = "derived"] @@
             [keys |-> derive_encryption_and_mac_keys(hk.out.val),
              fp |-> key_fingerprint(hk.out.val)]
    /\ UNCHANGED <<hs, env, dirExists, names, inodes, procs, nreq, nfault, art, ev>>

\* The master secrets derive_encryption_and_mac_keys is called with directly:
\* of 0, 1, 16, 31, 32 and 33 bytes.
Secrets == {Take(K1, n) : n \in {0, 1, 16, KeyLen - 1, KeyLen}} \cup {K1 \o <<7>>, K2}

\* derive_encryption_and_mac_keys and key_fingerprint on a secret of any
\* length: neither has a statement that raises, and HKDF and HMAC take key
\* material of every length, so both return.
KeyDeriveAny ==
    /\ hk.pc = "idle"
    /\ \E m \in Secrets :
        hk' = [pc |-> "called", secret |-> m, raised |-> FALSE,
               keys |-> derive_encryption_and_mac_keys(m), fp |-> key_fingerprint(m)]
    /\ UNCHANGED <<hs, env, dirExists, names, inodes, procs, nreq, nfault, art, ev>>

NextKey == KeyParse \/ KeyDerive \/ KeyDeriveAny


\* --------------------------------------------------------------- engine run

\* A path that names no file.
NoFile == <<-1>>

\* Plaintexts of n bytes: mixed bytes, and bytes that all look like padding.
PlainMixed(n) == [i \in 1..n |-> (i * 7 + 3) % 256]

PlainOnes(n) == [i \in 1..n |-> 1]

\* Lengths from empty to two chunks and a byte.
MaxLen == 2 * ChunkSize + 1

Plaintexts == {PlainMixed(n) : n \in 0..MaxLen} \cup {PlainOnes(n) : n \in 0..MaxLen}

\* The values os.urandom(16) takes in the model.
IVs == {[i \in 1..BlockSize |-> (i * 11) % 256], [i \in 1..BlockSize |-> (200 + i * 3) % 256]}

\* The chunk sizes the engine is run with: below, at and above the block size.
StreamChunks == {5, BlockSize, ChunkSize}

StreamIdle ==
    [pc |-> "idle", plain |-> << >>, master |-> << >>, iv |-> << >>, ce |-> 0, cd |-> 0,
     pos |-> 0, file |-> NoFile, sess |-> << >>, tag |-> << >>, enc |-> << >>,
     out |-> NoFile, res |-> << >>]

\* A call of encrypt_fileobj_to_path up to line 97: the IV is drawn, the
\* session set up and the output file opened.
SLoad ==
    /\ hs.pc = "idle"
    /\ \E p \in Plaintexts, k \in {K1, K2}, iv \in IVs, ce \in StreamChunks, cd \in StreamChunks :
        LET Opened(keys) ==
                hs' = [StreamIdle EXCEPT !.pc = "enc", !.plain = p, !.master = k, !.iv = iv,
                           !.ce = ce, !.cd = cd, !.file = << >>,
                           !.sess = EncSession(keys[1], keys[2], iv)]
        IN  Opened(derive_encryption_and_mac_keys(k))
    /\ UNCHANGED <<hk, env, dirExists, names, inodes, procs, nreq, nfault, art, ev>>

\* One pass of the loop, lines 98-109, on the next chunk of the source.
SEncChunk ==
    /\ hs.pc = "enc"
    /\ hs.pos < Len(hs.plain)
    /\ LET chunk == Take(Drop(hs.plain, hs.pos), hs.ce)
           Written(r) ==
               hs' = [hs EXCEPT !.pos = @ + Len(chunk), !.sess = r.sess, !.file = @ \o r.out]
       IN  Written(EncChunk(hs.sess, chunk))
    /\ UNCHANGED <<hk, env, dirExists, names, inodes, procs, nreq, nfault, art, ev>>

\* The source is exhausted: lines 100-101 and 111-119.
SEncFinal ==
    /\ hs.pc = "enc"
    /\ hs.pos = Len(hs.plain)
    /\ LET Written(r) ==
               hs' = [hs EXCEPT !.pc = "stored", !.file = @ \o r.out, !.tag = r.tag,
                          !.enc = [bytes_in |-> r.total_in, bytes_out |-> r.total_out],
                          !.sess = << >>, !.pos = 0]
       IN  Written(EncFinal(hs.sess))
    /\ UNCHANGED <<hk, env, dirExists, names, inodes, procs, nreq, nfault, art, ev>>

\* A call of decrypt_file_to_path with the IV and tag returned, up to line
\* 146: both files are opened.
SDecOpen ==
    /\ hs.pc = "stored"
    /\ LET Opened(keys) ==
               hs' = [hs EXCEPT !.pc = "dec", !.out = << >>,
                          !.sess = DecSession(keys[1], keys[2], hs.iv)]
       IN  Opened(derive_encryption_and_mac_keys(hs.master))
    /\ UNCHANGED <<hk, env, dirExists, names, inodes, procs, nreq, nfault, art, ev>>

\* One pass of the loop, lines 147-158.
SDecChunk ==
    /\ hs.pc = "dec"
    /\ hs.pos < Len(hs.file)
    /\ LET chunk == Take(Drop(hs.file, hs.pos), hs.cd)
           Written(r) ==
               hs' = [hs EXCEPT !.pos = @ + Len(chunk), !.sess = r.sess, !.out = @ \o r.out]
       IN  Written(DecChunk(hs.sess, chunk))
    /\ UNCHANGED <<hk, env, dirExists, names, inodes, procs, nreq, nfault, art, ev>>

\* End of file: lines 149-150 and 160-182; on an error the output is removed.
SDecFinal ==
    /\ hs.pc = "dec"
    /\ hs.pos = Len(hs.file)
    /\ LET Closed(r) ==
               hs' = [hs EXCEPT !.pc = "done",
                          !.out = IF r.err = "none" THEN @ \o r.out ELSE NoFile,
                          !.res = [err |-> r.err, bytes_in |-> r.total_in,
                                   bytes_out |-> r.total_out, verified |-> r.verified]]
       IN  Closed(DecFinal(hs.sess, hs.tag))
    /\ UNCHANGED <<hk, env, dirExists, names, inodes, procs, nreq, nfault, art, ev>>

NextStream == SLoad \/ SEncChunk \/ SEncFinal \/ SDecOpen \/ SDecChunk \/ SDecFinal


\* ------------------------------------------------------------------ storage

IDs == 1..MaxIds

\* <storage_dir>/<id>.enc, <id>.json and <id>.dec.tmp
EncPath(id) == <<id, "enc">>

MetaPath(id) == <<id, "json">>

\* A decrypt that writes its output over the ciphertext.
TmpPathInPlace(id) == <<id, "enc">>

TmpPath(id) == <<id, "dec.tmp">>

Paths == {EncPath(id) : id \in IDs} \cup {MetaPath(id) : id \in IDs} \cup {TmpPath(id) : id \in IDs}

\* os.path.exists(path)
Exists(nm, path) == nm[path] # 0

\* The bytes of a file after a write of data at offset off by a handle that
\* keeps its own position: a gap left by a truncation reads as zeros.
WriteAt(content, off, data) ==
    Take(content, off) \o Repeat(0, Max2(off - Len(content), 0)) \o data
        \o Drop(content, off + Len(data))

\* The text json.dump writes for a metadata dictionary, and what is left of it
\* when the write fails part way.
JsonText(doc) == [complete |-> TRUE, doc |-> doc]

JsonPartial == [complete |-> FALSE, doc |-> << >>]

\* Whether a remove may fail here: the file is there and a fault is left.
RemoveOutcomes(nm, path, nf) ==
    IF Exists(nm, path) /\ nf < MaxFaults THEN {TRUE, FALSE} ELSE {TRUE}

\* "if os.path.exists(path): os.remove(path)" inside try/except-pass: the
\* directory after it, when the remove succeeds (rmok) or raises.
RemoveIfExists(nm, path, rmok) ==
    IF Exists(nm, path) /\ rmok THEN [nm EXCEPT ![path] = 0] ELSE nm

FaultsAfter(nm, path, rmok, nf) == IF Exists(nm, path) /\ ~rmok THEN nf + 1 ELSE nf

\* The files after that remove by request p: the bytes of a file that has
\* lost its name and that no other request holds open can be read by nobody,
\* and are dropped.
Reclaim(ino, nm, path, rmok, p) ==
    IF Exists(nm, path) /\ rmok
          /\ \A q \in DOMAIN procs \ {p} : procs[q].fin # nm[path] /\ procs[q].fout # nm[path]
    THEN [ino EXCEPT ![nm[path]] = IF path[2] = "json" THEN JsonPartial ELSE << >>]
    ELSE ino

\* ------------------------------------------------------------------ requests

Procs == {1, 2}

\* An upload: the file's bytes and its name.
Uploads == {[data |-> PlainMixed(5), filename |-> <<97>>],
            [data |-> PlainOnes(ChunkSize + 3), filename |-> <<98>>]}

\* The key form field of a request: absent, the base64 text of K3, and a
\* text that is no key.
KeyFields == {None, urlsafe_b64encode(K3), RawText(5)}

\* The values FILE_ENCRYPTION_KEY is set to: unset, the hexadecimal text of
\* K1, and a text that is no key.
EnvValues == {None, Hex(K1), RawText(5)}

\* get_master_key(key) under each value of the environment variable, for the
\* key fields requests carry.
MasterKeyOf == [key \in KeyFields, envv \in EnvValues |-> get_master_key(key, envv)]

\* A response: detail names the exception whose message the answer carries.
NoResp == [status |-> 0, kind |-> "none", body |-> << >>,
           deleted |-> [enc |-> FALSE, meta |-> FALSE], detail |-> "none"]

Resp(status, kind) == [NoResp EXCEPT !.status = status, !.kind = kind]

\* A handler's locals: op and pc say where it is; fin and fout are the inodes
\* of its open files; had records which files a delete found; mkdir, wrote
\* and opened record whether the request has made the storage directory,
\* whether it has created, written or removed a file and whether it has
\* opened the ciphertext; tampered, whether the ciphertext it opened had been
\* changed; cause names what made it fail and rmfailed says whether the
\* clean-up after that raised too; verified counts the calls of h.verify the
\* request has made.
Idle ==
    [op |-> "none", pc |-> "idle", id |-> 0, master |-> << >>, src |-> << >>,
     filename |-> << >>, pos |-> 0, sess |-> << >>, fin |-> 0, fout |-> 0,
     iv |-> << >>, tag |-> << >>, removed |-> [enc |-> FALSE, meta |-> FALSE],
     had |-> [enc |-> FALSE, meta |-> FALSE],
     mkdir |-> FALSE, wrote |-> FALSE, opened |-> FALSE, tampered |-> FALSE,
     cause |-> "none", rmfailed |-> FALSE, verified |-> 0]

\* A request is taken by the first free worker.
CanStart(p) ==
    /\ procs[p].pc = "idle"
    /\ nreq < MaxReqs
    /\ \A q \in Procs : q < p => procs[q].pc # "idle"

\* No request returned in the last step.
NoEvent == [p |-> 0, req |-> Idle, resp |-> NoResp]

\* The handler of request pr returns resp: the worker is free again and the
\* response is the event of this step.
Return(p, pr, resp) ==
    /\ procs' = [procs EXCEPT ![p] = Idle]
    /\ ev' = [p |-> p, resp |-> resp,
              req |-> [Idle EXCEPT !.op = pr.op, !.id = pr.id, !.master = pr.master,
                                   !.removed = pr.removed, !.had = pr.had,
                                   !.mkdir = pr.mkdir, !.wrote = pr.wrote,
                                   !.opened = pr.opened, !.tampered = pr.tampered,
                                   !.cause = pr.cause, !.rmfailed = pr.rmfailed,
                                   !.verified = pr.verified]]

\* The handler moves on to pr.
Goto(p, pr) ==
    /\ procs' = [procs EXCEPT ![p] = pr]
    /\ ev' = NoEvent

\* What is remembered of an id: whether uuid4 has returned it, the secret and
\* the plaintext of its encrypt, how often its record has been written,
\* whether a delete of it has run since, and whether its files were changed
\* from outside the service.
NoArt == [used |-> FALSE, stored |-> FALSE, master |-> << >>, plain |-> << >>,
          changed |-> "no", records |-> 0, deleted |-> FALSE]

\* A prologue that makes the storage directory before it looks at the key.
StorageDirThenKey(key, envv, d) == [mk |-> MasterKeyOf[key, envv], dir |-> TRUE]

\* Lines 26-35 of encrypt_file and 127-135 of decrypt_by_id: the key is obtained first and
\* the storage directory made only once the key is accepted. d says whether
\* the directory exists before.
KeyThenStorageDir(key, envv, d) ==
    LET Checked(mk) == [mk |-> mk, dir |-> IF mk.ok THEN TRUE ELSE d]
    IN  Checked(MasterKeyOf[key, envv])

\* ------------------------------------------- POST /encrypt (encrypt_file)

\* The id uuid4() returns: one never handed out before.
FreshId == CHOOSE i \in IDs : ~art[i].used /\ \A j \in IDs : j < i => art[j].used

\* A metadata dictionary whose fingerprint is salted with the IV.
MetadataSaltedFingerprint(id, filename, bytes_in, bytes_out, iv, tag, master) ==
    [id |-> id, original_filename |-> filename, bytes_in |-> bytes_in,
     bytes_out |-> bytes_out, iv_b64 |-> urlsafe_b64encode(iv),
     hmac_b64 |-> urlsafe_b64encode(tag),
     key_fp |-> Take(Hex(hmac_sha256(derive_encryption_and_mac_keys(master)[2],
                                     FingerprintLabel \o iv).val), 16)]

\* The metadata dictionary of lines 48-59.
Metadata(id, filename, bytes_in, bytes_out, iv, tag, master) ==
    [id |-> id, original_filename |-> filename, bytes_in |-> bytes_in,
     bytes_out |-> bytes_out, iv_b64 |-> urlsafe_b64encode(iv),
     hmac_b64 |-> urlsafe_b64encode(tag), key_fp |-> key_fingerprint(master)]

\* An except clause in which the error of the clean-up replaces the one that
\* was being handled.
SurfacedLast(original, cleanup) == IF cleanup # "none" THEN cleanup ELSE original

\* The exception that leaves an except clause whose clean-up sits in its own
\* try/except-pass: "raise" of crypto.py line 180 re-raises the one being
\* handled, and "e" of files.py line 68 is still bound to it, whether the
\* clean-up raised (cleanup names its error) or not ("none").
Surfaced(original, cleanup) == original

\* The except clause of lines 62-68 after a fault in the try block: the
\* ciphertext is removed if it is there (a failing remove is swallowed) and
\* the request answered 500.
EncFail(p, cause) ==
    /\ nfault < MaxFaults
    /\ \E rmok \in RemoveOutcomes(names, EncPath(procs[p].id), nfault + 1) :
        /\ names' = RemoveIfExists(names, EncPath(procs[p].id), rmok)
        /\ inodes' = Reclaim(inodes, names, EncPath(procs[p].id), rmok, p)
        /\ nfault' = FaultsAfter(names, EncPath(procs[p].id), rmok, nfault + 1)
        /\ Return(p, [procs[p] EXCEPT !.cause = cause, !.rmfailed = ~rmok],
                  [Resp(500, "StoreFailed") EXCEPT
                      !.detail = Surfaced(cause, IF rmok THEN "none" ELSE "rmfail")])

\* Lines 26-38: the key is read before anything else; then the storage
\* directory is made and the id drawn.
EncStartUpTo(p, uploads) ==
    /\ CanStart(p)
    /\ Cardinality({i \in IDs : art[i].used}) < uploads
    /\ \E up \in Uploads, key \in KeyFields :
        LET Begin(pre) ==
                /\ dirExists' = pre.dir
                /\ IF ~pre.mk.ok THEN
                       /\ Return(p, [Idle EXCEPT !.op = "encrypt", !.mkdir = pre.dir # dirExists],
                                 Resp(pre.mk.status, pre.mk.kind))
                       /\ UNCHANGED art
                   ELSE
                       /\ Goto(p, [Idle EXCEPT !.op = "encrypt", !.pc = "e_open",
                                               !.id = FreshId, !.master = pre.mk.val,
                                               !.src = up.data, !.filename = up.filename,
                                               !.mkdir = pre.dir # dirExists])
                       /\ art' = [art EXCEPT ![FreshId] =
                                     [NoArt EXCEPT !.used = TRUE, !.master = pre.mk.val,
                                                   !.plain = up.data,
                                                   !.deleted = \E q \in Procs :
                                                       /\ procs[q].op = "delete"
                                                       /\ procs[q].id = FreshId]]
        IN  Begin(KeyThenStorageDir(key, env, dirExists))
    /\ nreq' = nreq + 1
    /\ UNCHANGED <<hk, hs, env, names, inodes, nfault>>

EncStart(p) == EncStartUpTo(p, MaxUploads)

\* The same handler where every id may be handed out.
EncStartAny(p) == EncStartUpTo(p, MaxIds)

\* encrypt_fileobj_to_path, lines 86-97: the IV is drawn, the session set up
\* and the ciphertext file created; or open raises.
EncOpen(p) ==
    /\ procs[p].pc = "e_open"
    /\ \/ /\ \E iv \in IVs :
                LET Opened(keys) ==
                        Goto(p, [procs[p] EXCEPT !.pc = "e_loop", !.iv = iv,
                                                 !.fout = Len(inodes) + 1, !.wrote = TRUE,
                                                 !.sess = EncSession(keys[1], keys[2], iv)])
                IN  Opened(derive_encryption_and_mac_keys(procs[p].master))
          /\ inodes' = Append(inodes, << >>)
          /\ names' = [names EXCEPT ![EncPath(procs[p].id)] = Len(inodes) + 1]
          /\ UNCHANGED nfault
       \/ EncFail(p, "open")
    /\ UNCHANGED <<hk, hs, env, dirExists, nreq, art>>

\* One pass of the loop of encrypt_fileobj_to_path on the next chunk of the
\* upload; or the read or the write raises.
EncLoop(p) ==
    /\ procs[p].pc = "e_loop"
    /\ procs[p].pos < Len(procs[p].src)
    /\ \/ /\ LET pr == procs[p]
                 chunk == Take(Drop(pr.src, pr.pos), ChunkSize)
                 Written(r) ==
                     /\ Goto(p, [pr EXCEPT !.pos = @ + Len(chunk), !.sess = r.sess])
                     /\ inodes' = [inodes EXCEPT ![pr.fout] = WriteAt(@, pr.sess.total_out, r.out)]
             IN  Written(EncChunk(pr.sess, chunk))
          /\ UNCHANGED <<names, nfault>>
       \/ EncFail(p, "io")
    /\ UNCHANGED <<hk, hs, env, dirExists, nreq, art>>

\* The upload is exhausted: the last block is written, the file closed and
\* the tag computed (lines 111-119); or the write raises.
EncFinish(p) ==
    /\ procs[p].pc = "e_loop"
    /\ procs[p].pos = Len(procs[p].src)
    /\ \/ /\ LET pr == procs[p]
                 Written(r) ==
                     /\ Goto(p, [pr EXCEPT !.pc = "e_meta", !.tag = r.tag, !.fout = 0,
                                           !.sess = [bytes_in |-> r.total_in,
                                                     bytes_out |-> r.total_out]])
                     /\ inodes' = [inodes EXCEPT ![pr.fout] = WriteAt(@, pr.sess.total_out, r.out)]
             IN  Written(EncFinal(pr.sess))
          /\ UNCHANGED <<names, nfault>>
       \/ EncFail(p, "io")
    /\ UNCHANGED <<hk, hs, env, dirExists, nreq, art>>

\* Line 60: open(meta_path, "w") creates the metadata file, still empty; or
\* it raises.
EncMetaOpen(p) ==
    /\ procs[p].pc = "e_meta"
    /\ \/ /\ Goto(p, [procs[p] EXCEPT !.pc = "e_dump", !.fout = Len(inodes) + 1])
          /\ inodes' = Append(inodes, JsonPartial)
          /\ names' = [names EXCEPT ![MetaPath(procs[p].id)] = Len(inodes) + 1]
          /\ UNCHANGED nfault
       \/ EncFail(p, "meta-open")
    /\ UNCHANGED <<hk, hs, env, dirExists, nreq, art>>

\* Line 61 and the return of lines 70-80: json.dump writes the record and the
\* request is answered 200; or the write raises part way.
EncMetaDump(p) ==
    /\ procs[p].pc = "e_dump"
    /\ \/ /\ LET pr == procs[p]
                 doc == Metadata(pr.id, pr.filename, pr.sess.bytes_in, pr.sess.bytes_out,
                                 pr.iv, pr.tag, pr.master)
             IN  /\ inodes' = [inodes EXCEPT ![pr.fout] = JsonText(doc)]
                 /\ Return(p, pr, Resp(200, "ok"))
                 /\ art' = [art EXCEPT ![pr.id].stored = TRUE, ![pr.id].records = @ + 1]
          /\ UNCHANGED <<names, nfault>>
       \/ /\ EncFail(p, "meta-write")
          /\ UNCHANGED art
    /\ UNCHANGED <<hk, hs, env, dirExists, nreq>>

\* ---------------------------- POST /files/{file_id}/decrypt (decrypt_by_id)

\* A handler that does not compare fingerprints.
NoFingerprintCheck(doc, master) == FALSE

\* Lines 144-148: the record names a fingerprint and the supplied secret has
\* another.
FingerprintMismatch(doc, master) ==
    doc.key_fp # None /\ key_fingerprint(master) # doc.key_fp

\* The except clause of decrypt_file_to_path, lines 173-180, and that of
\* decrypt_by_id, lines 157-158: the output is removed if it is there (a
\* failing remove is swallowed) and the request answered 400. faults counts
\* the storage faults that led here, ino is the files as the try block left
\* them, verified the calls of h.verify made.
DecFail(p, cause, faults, ino, verified) ==
    /\ nfault + faults <= MaxFaults
    /\ \E rmok \in RemoveOutcomes(names, TmpPath(procs[p].id), nfault + faults) :
        /\ names' = RemoveIfExists(names, TmpPath(procs[p].id), rmok)
        /\ inodes' = Reclaim(ino, names, TmpPath(procs[p].id), rmok, p)
        /\ nfault' = FaultsAfter(names, TmpPath(procs[p].id), rmok, nfault + faults)
        /\ Return(p, [procs[p] EXCEPT !.cause = cause, !.rmfailed = ~rmok,
                                       !.verified = verified,
                                       !.wrote = @ \/ Exists(names, TmpPath(procs[p].id))],
                  [Resp(400, "DecryptFailed") EXCEPT
                      !.detail = Surfaced(cause, IF rmok THEN "none" ELSE "rmfail")])

\* Lines 127-139: the key is read first; then the storage directory is made
\* and both files looked up.
DecStart(p) ==
    /\ CanStart(p)
    /\ \E id \in IDs, key \in KeyFields :
        LET Begin(pre) ==
                LET pr == [Idle EXCEPT !.op = "decrypt", !.id = id, !.master = pre.mk.val,
                                       !.mkdir = pre.dir # dirExists]
                IN  /\ dirExists' = pre.dir
                    /\ IF ~pre.mk.ok THEN
                           Return(p, pr, Resp(pre.mk.status, pre.mk.kind))
                       ELSE IF Exists(names, EncPath(id)) /\ Exists(names, MetaPath(id)) THEN
                           Goto(p, [pr EXCEPT !.pc = "d_meta"])
                       ELSE
                           Return(p, pr, Resp(404, "NotFound"))
        IN  Begin(KeyThenStorageDir(key, env, dirExists))
    /\ nreq' = nreq + 1
    /\ UNCHANGED <<hk, hs, env, names, inodes, nfault, art>>

\* Lines 142-151: the record is read, the fingerprint compared, the IV and
\* the tag decoded.
DecMeta(p) ==
    /\ procs[p].pc = "d_meta"
    /\ LET pr == procs[p]
           present == Exists(names, MetaPath(pr.id))
           Decoded(iv, tag) ==
               IF ~iv.ok \/ ~tag.ok THEN
                   Return(p, [pr EXCEPT !.cause = "meta"],
                          [Resp(400, "DecryptFailed") EXCEPT !.detail = "meta"])
               ELSE
                   Goto(p, [pr EXCEPT !.pc = "d_open", !.iv = iv.val, !.tag = tag.val])
           Loaded(text) ==
               IF ~text.complete THEN
                   Return(p, [pr EXCEPT !.cause = "meta"],
                          [Resp(400, "DecryptFailed") EXCEPT !.detail = "meta"])
               ELSE IF FingerprintMismatch(text.doc, pr.master) THEN
                   Return(p, pr, Resp(400, "KeyMismatch"))
               ELSE
                   Decoded(urlsafe_b64decode(text.doc.iv_b64),
                           urlsafe_b64decode(text.doc.hmac_b64))
       IN  Loaded(IF present THEN inodes[names[MetaPath(pr.id)]] ELSE JsonPartial)
    /\ UNCHANGED <<hk, hs, env, dirExists, names, inodes, nreq, nfault, art>>

\* decrypt_file_to_path, lines 135-146: the session is set up, the ciphertext
\* opened and <id>.dec.tmp created or truncated; or an open raises.
DecOpen(p) ==
    /\ procs[p].pc = "d_open"
    /\ LET pr == procs[p]
           tmp == TmpPath(pr.id)
           Opened(keys) ==
               Goto(p, [pr EXCEPT !.pc = "d_loop", !.fin = names[EncPath(pr.id)],
                                  !.fout = IF Exists(names, tmp) THEN names[tmp]
                                           ELSE Len(inodes) + 1,
                                  !.opened = TRUE, !.wrote = TRUE,
                                  !.tampered = art[pr.id].changed = "tampered",
                                  !.sess = DecSession(keys[1], keys[2], pr.iv)])
       IN  IF ~Exists(names, EncPath(pr.id)) THEN
               DecFail(p, "open", 0, inodes, 0)
           ELSE
               \/ /\ Opened(derive_encryption_and_mac_keys(pr.master))
                  /\ IF Exists(names, tmp)
                     THEN /\ inodes' = [inodes EXCEPT ![names[tmp]] = << >>]
                          /\ UNCHANGED names
                     ELSE /\ inodes' = Append(inodes, << >>)
                          /\ names' = [names EXCEPT ![tmp] = Len(inodes) + 1]
                  /\ UNCHANGED nfault
               \/ DecFail(p, "open", 1, inodes, 0)
    /\ UNCHANGED <<hk, hs, env, dirExists, nreq, art>>

\* One pass of the loop of decrypt_file_to_path: a chunk is read, fed to the
\* MAC and the cipher, and the plaintext it releases written to the output;
\* or the read or the write raises.
DecLoop(p) ==
    /\ procs[p].pc = "d_loop"
    /\ procs[p].pos < Len(inodes[procs[p].fin])
    /\ \/ /\ LET pr == procs[p]
                 chunk == Take(Drop(inodes[pr.fin], pr.pos), ChunkSize)
                 Written(r) ==
                     /\ Goto(p, [pr EXCEPT !.pos = @ + Len(chunk), !.sess = r.sess])
                     /\ inodes' = [inodes EXCEPT ![pr.fout] = WriteAt(@, pr.sess.total_out, r.out)]
             IN  Written(DecChunk(pr.sess, chunk))
          /\ UNCHANGED <<names, nfault>>
       \/ DecFail(p, "io", 1, inodes, 0)
    /\ UNCHANGED <<hk, hs, env, dirExists, nreq, art>>

\* End of file, lines 160-182 and 155-160: cipher and unpadder are finalised,
\* the tail written, the files closed and the MAC verified; then either the
\* FileResponse is returned or the output removed and the request failed.
DecFinish(p) ==
    /\ procs[p].pc = "d_loop"
    /\ procs[p].pos >= Len(inodes[procs[p].fin])
    /\ LET pr == procs[p]
           Closed(r, ino) ==
               IF r.err = "none" THEN
                   /\ inodes' = ino
                   /\ Goto(p, [pr EXCEPT !.pc = "d_serve", !.fin = 0, !.fout = 0,
                                         !.sess = << >>, !.pos = 0, !.iv = << >>,
                                         !.tag = << >>, !.verified = r.verified])
                   /\ UNCHANGED <<names, nfault>>
               ELSE DecFail(p, r.err, 0, ino, r.verified)
           Finalised(r) ==
               Closed(r, [inodes EXCEPT ![pr.fout] = WriteAt(@, pr.sess.total_out, r.out)])
       IN  Finalised(DecFinal(pr.sess, pr.tag))
    /\ UNCHANGED <<hk, hs, env, dirExists, nreq, art>>

\* The FileResponse of line 160 is sent: the file at <id>.dec.tmp is read
\* then, by name.
DecServe(p) ==
    /\ procs[p].pc = "d_serve"
    /\ LET pr == procs[p]
           tmp == TmpPath(pr.id)
       IN  IF Exists(names, tmp)
           THEN Return(p, pr, [Resp(200, "ok") EXCEPT !.body = inodes[names[tmp]]])
           ELSE Return(p, [pr EXCEPT !.cause = "gone"], Resp(500, "ServeFailed"))
    /\ UNCHANGED <<hk, hs, env, dirExists, names, inodes, nreq, nfault, art>>

\* -------------------------------------- DELETE /files/{file_id} (delete_by_id)

\* Lines 181-183: 404 when no remove succeeded, the report otherwise.
delete_response(removed) ==
    IF ~removed.enc /\ ~removed.meta
    THEN Resp(404, "NotFound")
    ELSE [Resp(200, "ok") EXCEPT !.deleted = removed]

\* Lines 165-174: the storage directory is made and the ciphertext removed if
\* it is there; a failing remove is swallowed.
DelEnc(p) ==
    /\ CanStart(p)
    /\ \E id \in IDs :
        \E rmok \in RemoveOutcomes(names, EncPath(id), nfault) :
            /\ names' = RemoveIfExists(names, EncPath(id), rmok)
            /\ inodes' = Reclaim(inodes, names, EncPath(id), rmok, p)
            /\ nfault' = FaultsAfter(names, EncPath(id), rmok, nfault)
            /\ Goto(p, [Idle EXCEPT !.op = "delete", !.pc = "x_meta", !.id = id,
                                    !.had.enc = Exists(names, EncPath(id)),
                                    !.removed.enc = Exists(names, EncPath(id)) /\ rmok,
                                    !.cause = IF rmok THEN "none" ELSE "rmfail",
                                    !.mkdir = ~dirExists,
                                    !.wrote = Exists(names, EncPath(id)) /\ rmok])
            /\ art' = [art EXCEPT ![id].deleted = TRUE]
    /\ dirExists' = TRUE
    /\ nreq' = nreq + 1
    /\ UNCHANGED <<hk, hs, env>>

\* A handler that leaves the record alone once the removal of the ciphertext
\* has failed.
DelMetaUnlessEncFailed(p) ==
    /\ procs[p].pc = "x_meta"
    /\ LET pr == procs[p]
           path == MetaPath(pr.id)
       IN  \E rmok \in RemoveOutcomes(names, path, nfault) :
            LET tried == pr.cause # "rmfail"
                removed == [pr.removed EXCEPT !.meta = tried /\ Exists(names, path) /\ rmok]
                pq == [pr EXCEPT !.removed = removed, !.had.meta = Exists(names, path),
                                 !.cause = IF rmok THEN @ ELSE "rmfail",
                                 !.wrote = @ \/ removed.meta]
            IN  /\ names' = RemoveIfExists(names, path, tried /\ rmok)
                /\ inodes' = Reclaim(inodes, names, path, tried /\ rmok, p)
                /\ nfault' = IF tried THEN FaultsAfter(names, path, rmok, nfault) ELSE nfault
                /\ Return(p, pq, delete_response(removed))
    /\ UNCHANGED <<hk, hs, env, dirExists, nreq, art>>

\* Lines 175-183: likewise for the metadata record; then the response.
DelMeta(p) ==
    /\ procs[p].pc = "x_meta"
    /\ LET pr == procs[p]
           path == MetaPath(pr.id)
       IN  \E rmok \in RemoveOutcomes(names, path, nfault) :
            LET removed == [pr.removed EXCEPT !.meta = Exists(names, path) /\ rmok]
                pq == [pr EXCEPT !.removed = removed, !.had.meta = Exists(names, path),
                                 !.cause = IF rmok THEN @ ELSE "rmfail",
                                 !.wrote = @ \/ removed.meta]
            IN  /\ names' = RemoveIfExists(names, path, rmok)
                /\ inodes' = Reclaim(inodes, names, path, rmok, p)
                /\ nfault' = FaultsAfter(names, path, rmok, nfault)
                /\ Return(p, pq, delete_response(removed))
    /\ UNCHANGED <<hk, hs, env, dirExists, nreq, art>>

\* ------------------------------------------------- the read-only handlers

\* The stored ciphertext and the stored record of an id, as a reader finds
\* them; NoFile where the path names nothing.
Blob(id) == IF Exists(names, EncPath(id)) THEN inodes[names[EncPath(id)]] ELSE NoFile

Record(id) == IF Exists(names, MetaPath(id)) THEN inodes[names[MetaPath(id)]] ELSE NoFile

\* json.load succeeds on the record of id.
Readable(id) == Exists(names, MetaPath(id)) /\ inodes[names[MetaPath(id)]].complete

\* A request of one step that reads only: ensure_storage_dir, then the
\* response.
ReadOnly(p, op, id, resp) ==
    /\ CanStart(p)
    /\ Return(p, [Idle EXCEPT !.op = op, !.id = id, !.mkdir = ~dirExists], resp)
    /\ dirExists' = TRUE
    /\ nreq' = nreq + 1
    /\ UNCHANGED <<hk, hs, env, names, inodes, nfault, art>>

\* GET /files, lines 84-102: the ids of the records json.load accepts; a
\* record it rejects is skipped. The order of the listing is left out: the
\* records of the model carry no created_at.
list_files(p) ==
    ReadOnly(p, "list", 0,
             [Resp(200, "ok") EXCEPT
                 !.body = SelectSeq([i \in 1..MaxIds |-> i], LAMBDA i : Readable(i))])

\* GET /files/{file_id}, lines 106-113: 404 without a record; json.load of a
\* partial record raises and the framework answers 500.
get_metadata(p) ==
    \E id \in IDs :
        ReadOnly(p, "metadata", id,
                 IF ~Exists(names, MetaPath(id)) THEN Resp(404, "NotFound")
                 ELSE IF ~Readable(id) THEN Resp(500, "ServerError")
                 ELSE [Resp(200, "ok") EXCEPT !.body = <<Record(id).doc>>])

\* GET /files/{file_id}/download, lines 117-122: 404 without a ciphertext,
\* else the file as it is.
download_encrypted(p) ==
    \E id \in IDs :
        ReadOnly(p, "download", id,
                 IF ~Exists(names, EncPath(id)) THEN Resp(404, "NotFound")
                 ELSE [Resp(200, "ok") EXCEPT !.body = Blob(id)])

\* ------------------------------------------------------------ environment

FlipBit(c, i, b) == [c EXCEPT ![i] = Xor8(@, b)]

\* Ciphertexts that differ from c: a bit flipped in the first or in the last
\* byte, the last byte cut off.
Tampered(c) == {FlipBit(c, 1, 1), FlipBit(c, Len(c), 1), Take(c, Len(c) - 1)}

\* Somebody with access to the storage directory changes a ciphertext at
\* rest.
Tamper(id) ==
    /\ art[id].stored
    /\ art[id].changed = "no"
    /\ Exists(names, EncPath(id))
    /\ \A p \in Procs : procs[p].fin # names[EncPath(id)]
    /\ \E c \in Tampered(inodes[names[EncPath(id)]]) :
        inodes' = [inodes EXCEPT ![names[EncPath(id)]] = c]
    /\ art' = [art EXCEPT ![id].changed = "tampered"]
    /\ ev' = NoEvent
    /\ UNCHANGED <<hk, hs, env, dirExists, names, procs, nreq, nfault>>

\* The storage directory holds a record written without a key_fp field, which
\* line 145 provides for.
LegacyRecord(id) ==
    /\ art[id].stored
    /\ art[id].changed = "no"
    /\ Exists(names, MetaPath(id))
    /\ inodes' = [inodes EXCEPT ![names[MetaPath(id)]].doc.key_fp = None]
    /\ art' = [art EXCEPT ![id].changed = "legacy"]
    /\ ev' = NoEvent
    /\ UNCHANGED <<hk, hs, env, dirExists, names, procs, nreq, nfault>>

\* ------------------------------------------------------------ specifications

InitWith(values) ==
    /\ hk = KeyIdle
    /\ hs = StreamIdle
    /\ env \in values
    /\ dirExists = FALSE
    /\ names = [path \in Paths |-> 0]
    /\ inodes = << >>
    /\ procs = [p \in Procs |-> Idle]
    /\ nreq = 0
    /\ nfault = 0
    /\ art = [id \in IDs |-> NoArt]
    /\ ev = NoEvent

Init == InitWith(EnvValues)

\* The pure functions are exercised apart from the service: nothing of the
\* environment is read.
InitPure == InitWith({None})

Next ==
    \/ \E p \in Procs : EncStart(p)
    \/ \E p \in Procs : EncOpen(p)
    \/ \E p \in Procs : EncLoop(p)
    \/ \E p \in Procs : EncFinish(p)
    \/ \E p \in Procs : EncMetaOpen(p)
    \/ \E p \in Procs : EncMetaDump(p)
    \/ \E p \in Procs : DecStart(p)
    \/ \E p \in Procs : DecMeta(p)
    \/ \E p \in Procs : DecOpen(p)
    \/ \E p \in Procs : DecLoop(p)
    \/ \E p \in Procs : DecFinish(p)
    \/ \E p \in Procs : DecServe(p)
    \/ \E p \in Procs : DelEnc(p)
    \/ \E p \in Procs : DelMeta(p)
    \/ \E p \in Procs : list_files(p)
    \/ \E p \in Procs : get_metadata(p)
    \/ \E p \in Procs : download_encrypted(p)
    \/ \E id \in IDs : Tamper(id)
    \/ \E id \in IDs : LegacyRecord(id)

\* The server: requests running concurrently on one storage directory.
Spec == Init /\ [][Next]_vars

\* parse_master_key and the key derivation on one text.
\* The service with a second upload: uploads, decrypts and the read-only
\* handlers, without deletes and without changes from outside.
NextUploads ==
    \/ \E p \in Procs : EncStartAny(p)
    \/ \E p \in Procs : EncOpen(p)
    \/ \E p \in Procs : EncLoop(p)
    \/ \E p \in Procs : EncFinish(p)
    \/ \E p \in Procs : EncMetaOpen(p)
    \/ \E p \in Procs : EncMetaDump(p)
    \/ \E p \in Procs : DecStart(p)
    \/ \E p \in Procs : DecMeta(p)
    \/ \E p \in Procs : DecOpen(p)
    \/ \E p \in Procs : DecLoop(p)
    \/ \E p \in Procs : DecFinish(p)
    \/ \E p \in Procs : DecServe(p)
    \/ \E p \in Procs : list_files(p)
    \/ \E p \in Procs : get_metadata(p)
    \/ \E p \in Procs : download_encrypted(p)

SpecUploads == Init /\ [][NextUploads]_vars

SpecKey == InitPure /\ [][NextKey]_vars

\* One encrypt_fileobj_to_path, then one decrypt_file_to_path on its output.
SpecStream == InitPure /\ [][NextStream]_vars

\* ------------------------------------------------------------------ properties

\* The request that returned in the last step, its response and the artifact
\* it named.
req == ev.req

resp == ev.resp

\* C1 (round trip), of SpecStream: when decrypt_file_to_path has returned on
\* the ciphertext, IV and tag that encrypt_fileobj_to_path produced under the
\* same key, it has returned without an error, the output file holds exactly
\* the plaintext and the byte counts are those of the ciphertext and of the
\* plaintext, whatever the length of the plaintext and the chunk sizes of
\* the two calls.
C1_RoundTrip ==
    hs.pc = "done" =>
        /\ hs.res.err = "none"
        /\ hs.out = hs.plain
        /\ hs.res.bytes_in = Len(hs.file)
        /\ hs.res.bytes_out = Len(hs.plain)

\* A round trip of a plaintext of more than two chunks, read in chunks of one
\* size and decrypted in chunks of another.
C1_Witness ==
    /\ hs.pc = "done"
    /\ Len(hs.plain) = MaxLen
    /\ hs.ce = ChunkSize
    /\ hs.cd # hs.ce
    /\ hs.out = hs.plain

\* C2 (tamper detection): a decrypt_by_id that opened a ciphertext changed
\* since encrypt wrote it returns the decrypt failure, and when it returns
\* <id>.dec.tmp, the file it was writing, does not exist.
C2_TamperDetected ==
    (req.op = "decrypt" /\ req.tampered) =>
        /\ resp.kind = "DecryptFailed"
        /\ ~Exists(names, TmpPath(req.id))

\* C3 (wrong key): a decrypt_by_id that found the artifact and was given a
\* well-formed secret other than the one of the encrypt fails with the
\* fingerprint mismatch or with the decrypt failure, and is never answered
\* 200, whether or not the record has a key_fp.
C3_WrongKeyNeverSucceeds ==
    (/\ req.op = "decrypt"
     /\ req.master # << >>
     /\ art[req.id].used
     /\ req.master # art[req.id].master
     /\ resp.kind # "NotFound") =>
        /\ resp.status = 400
        /\ resp.kind \in {"KeyMismatch", "DecryptFailed"}

\* A decrypt with another secret of a record without key_fp, whose plaintext
\* came out well padded and which the MAC alone stopped.
C3_Witness ==
    /\ req.op = "decrypt"
    /\ req.master # art[req.id].master
    /\ art[req.id].changed = "legacy"
    /\ req.opened
    /\ req.cause = "mac"
    /\ resp.kind = "DecryptFailed"

\* C4 (failed encrypt leaves nothing): when encrypt_file answers 500 after a
\* fault in its try block, neither <id>.enc nor <id>.json exists.
C4_FailedEncryptLeavesNothing ==
    (req.op = "encrypt" /\ resp.kind = "StoreFailed") =>
        /\ ~Exists(names, EncPath(req.id))
        /\ ~Exists(names, MetaPath(req.id))

\* C5 (private sink until verified): while a decrypt is still reading the
\* ciphertext, so before its MAC is verified, the file under the name
\* <id>.dec.tmp in the storage directory, which every request can open, holds
\* none of the plaintext it has produced.
C5_PrivateSinkUntilVerified ==
    \A p \in Procs :
        (procs[p].pc = "d_loop" /\ names[TmpPath(procs[p].id)] = procs[p].fout) =>
            inodes[procs[p].fout] = << >>

\* C6 (KeyMismatch fails fast), an action property: the step of
\* decrypt_by_id that reads a record whose key_fp differs from the
\* fingerprint of the supplied secret returns KeyMismatch, the request has
\* not opened the ciphertext, has made no directory and touched no file, and
\* the step leaves storage as it is.
C6_KeyMismatchFailsFast ==
    [][\A p \in Procs :
         (/\ procs[p].pc = "d_meta"
          /\ procs'[p] # procs[p]
          /\ Exists(names, MetaPath(procs[p].id))
          /\ inodes[names[MetaPath(procs[p].id)]].complete
          /\ inodes[names[MetaPath(procs[p].id)]].doc.key_fp # None
          /\ inodes[names[MetaPath(procs[p].id)]].doc.key_fp
                # key_fingerprint(procs[p].master)) =>
             /\ ev'.p = p
             /\ ev'.resp.status = 400
             /\ ev'.resp.kind = "KeyMismatch"
             /\ ~ev'.req.opened
             /\ ~ev'.req.wrote
             /\ ~ev'.req.mkdir
             /\ UNCHANGED <<dirExists, names, inodes>>]_vars

\* A decrypt answered KeyMismatch, the ciphertext still in place and no
\* output file there.
C6_Witness ==
    /\ req.op = "decrypt"
    /\ resp.kind = "KeyMismatch"
    /\ Exists(names, EncPath(req.id))
    /\ ~Exists(names, TmpPath(req.id))

\* C7 (NotFound only if neither existed): a delete_by_id that found the
\* ciphertext or the record when it looked is not answered NotFound.
C7_NotFoundOnlyIfNeitherExisted ==
    (req.op = "delete" /\ (req.had.enc \/ req.had.meta)) => resp.kind # "NotFound"

\* What C8 says of one delete_by_id: with only the ciphertext there it is
\* removed and the report is (true, false); with only the record there the
\* report is (false, true); with neither there the answer is NotFound and the
\* request has created, written and removed no file.
PartialDeleteReport ==
    /\ (req.had.enc /\ ~req.had.meta) =>
          /\ resp.kind = "ok"
          /\ resp.deleted = [enc |-> TRUE, meta |-> FALSE]
          /\ ~Exists(names, EncPath(req.id))
    /\ (~req.had.enc /\ req.had.meta) =>
          /\ resp.kind = "ok"
          /\ resp.deleted = [enc |-> FALSE, meta |-> TRUE]
    /\ (~req.had.enc /\ ~req.had.meta) =>
          /\ resp.kind = "NotFound"
          /\ ~req.wrote

\* C8 (partial delete report): every delete_by_id answers as
\* PartialDeleteReport says.
C8_PartialDeleteReport == req.op = "delete" => PartialDeleteReport

\* C9 (key errors precede storage effects), an action property: the step in
\* which encrypt_file or decrypt_by_id returns InvalidKey or MissingKey is
\* the request's only step, answers 400 or 500, and leaves the storage
\* directory and every file as they were.
C9_KeyErrorsBeforeStorage ==
    [][ev'.resp.kind \in {"InvalidKey", "MissingKey"} =>
         /\ ev'.req.op \in {"encrypt", "decrypt"}
         /\ procs[ev'.p].pc = "idle"
         /\ ev'.resp.status \in {400, 500}
         /\ UNCHANGED <<dirExists, names, inodes>>]_vars

\* A request refused for its key while the storage directory did not exist,
\* and it still does not.
C9_Witness ==
    /\ resp.kind \in {"InvalidKey", "MissingKey"}
    /\ req.op = "decrypt"
    /\ ~dirExists

\* The three forms of C10: text of 32 bytes, 64 hexadecimal digits, and the
\* URL-safe base64 text of 32 bytes.
IsRaw32(s) == s # None /\ Len(Utf8(s)) = KeyLen

IsHex64(s) == s # None /\ Len(s) = 2 * KeyLen /\ \A i \in 1..Len(s) : HexVal(s[i]) < 16

IsB64Url32(s) ==
    /\ s # None
    /\ urlsafe_b64decode(s).ok
    /\ Len(urlsafe_b64decode(s).val) = KeyLen
    /\ urlsafe_b64encode(urlsafe_b64decode(s).val) = s

\* C10 (acceptance set): parse_master_key returns a secret, of 32 bytes,
\* exactly for the inputs of one of the three forms, and raises for all
\* others.
C10_AcceptanceSet ==
    hk.pc = "parsed" =>
        /\ hk.out.ok <=> (IsRaw32(hk.input) \/ IsHex64(hk.input) \/ IsB64Url32(hk.input))
        /\ hk.out.ok => Len(hk.out.val) = KeyLen

\* The secret a text stands for under one decoding: ok is FALSE where the
\* text is not of 32 bytes under it.
SecretUnder(enc, s) ==
    LET Sized(r) == [ok |-> r.ok /\ Len(r.val) = KeyLen, val |-> r.val]
    IN  IF enc = "base64" THEN Sized(urlsafe_b64decode(s))
        ELSE IF enc = "hex" THEN Sized(FromHex(s))
        ELSE Sized([ok |-> TRUE, val |-> Utf8(s)])

IsPrefix(a, b) == Len(a) <= Len(b) /\ a = SubSeq(b, 1, Len(a))

\* What C11 says with the decodings in the order given: a parse of a
\* non-empty text attempts them in that order, stops at the first under
\* which the text is a secret of 32 bytes, and returns that secret.
TriedInOrder(order) ==
    (hk.pc = "parsed" /\ hk.input # None /\ hk.input # << >>) =>
        /\ hk.out.tried # << >>
        /\ IsPrefix(hk.out.tried, order)
        /\ \A i \in 1..(Len(hk.out.tried) - 1) : ~SecretUnder(hk.out.tried[i], hk.input).ok
        /\ hk.out.ok =>
              /\ SecretUnder(hk.out.tried[Len(hk.out.tried)], hk.input).ok
              /\ hk.out.val = SecretUnder(hk.out.tried[Len(hk.out.tried)], hk.input).val

\* C11 (preference order) as stated: the decodings are tried in the order
\* raw text, hexadecimal, base64.
C11_RawHexBase64 == TriedInOrder(<<"raw", "hex", "base64">>)

\* C11 (preference order), amended: the decodings are tried in the order
\* base64, hexadecimal, raw text, and a text is read under the first of them
\* that gives 32 bytes.
C11_Base64HexRaw == TriedInOrder(<<"base64", "hex", "raw">>)

\* The hexadecimal text of a secret was parsed: base64 was tried and gave
\* 48 bytes, hexadecimal was tried next and returned the secret.
C11_Witness ==
    /\ hk.pc = "parsed"
    /\ hk.input = Hex(K1)
    /\ hk.out.tried = <<"base64", "hex">>
    /\ hk.out.val = K1
    /\ urlsafe_b64decode(hk.input).ok
    /\ Len(urlsafe_b64decode(hk.input).val) = 48

\* C12 (derive rejects wrong-length secrets): a call of
\* derive_encryption_and_mac_keys and key_fingerprint raises exactly when the
\* master secret is not of 32 bytes, and otherwise returns two keys of 32
\* bytes each.
C12_DeriveRejectsWrongLength ==
    hk.pc = "called" =>
        /\ hk.raised <=> Len(hk.secret) # KeyLen
        /\ ~hk.raised => Len(hk.keys[1]) = KeyLen /\ Len(hk.keys[2]) = KeyLen

\* C13 (artifact and record created together): of an id that no delete has
\* run on and that nobody changed from outside, a record that json.load
\* accepts has been written exactly once, and the ciphertext is then there,
\* closed, and as long as the record's bytes_out.
C13_RecordImpliesCompleteBlob ==
    \A id \in IDs :
        (Readable(id) /\ ~art[id].deleted /\ art[id].changed = "no") =>
            /\ art[id].records = 1
            /\ Exists(names, EncPath(id))
            /\ Len(Blob(id)) = Record(id).doc.bytes_out
            /\ \A p \in Procs : procs[p].fout # names[EncPath(id)]

\* Another request, a decrypt about to read the record, observes a readable
\* record and the complete ciphertext of an id that was never deleted.
C13_Witness ==
    \E id \in IDs, p \in Procs :
        /\ procs[p].pc = "d_meta"
        /\ procs[p].id = id
        /\ Readable(id)
        /\ ~art[id].deleted
        /\ art[id].changed = "no"
        /\ Len(Blob(id)) = 2 * BlockSize

\* The step is one of a delete_by_id of id.
DeleteStep(id) ==
    \E p \in Procs :
        /\ procs'[p] # procs[p]
        /\ \/ procs[p].op = "delete" /\ procs[p].id = id
           \/ procs'[p].op = "delete" /\ procs'[p].id = id

\* C14 (immutability), an action property: once the encrypt of an id has
\* succeeded, a step of the service that is not one of a delete of that id
\* leaves the stored ciphertext and the stored record of the id as they
\* were. Changes made from outside the service are not steps of it.
C14_Immutable ==
    [][\A id \in IDs :
          (art[id].stored /\ art'[id].changed = art[id].changed /\ ~DeleteStep(id)) =>
              /\ Blob(id)' = Blob(id)
              /\ Record(id)' = Record(id)]_vars

\* The encrypt of a second file has succeeded while the ciphertext and the
\* record of the first id, stored before, are in place.
C14_Witness ==
    /\ req.op = "encrypt"
    /\ resp.kind = "ok"
    /\ \E id \in IDs \ {req.id} :
          /\ art[id].stored
          /\ Readable(id)
          /\ Blob(id) # NoFile

\* C15 (fingerprint stability): the key_fp of every stored record is 16
\* hexadecimal digits; two records stored under the same master secret
\* carry the same key_fp, whatever their plaintexts, IVs and filenames; and
\* the fingerprint computed again by a decrypt with the secret of the
\* encrypt agrees with the stored one.
C15_FingerprintStable ==
    /\ \A i \in IDs :
          Readable(i) =>
              /\ Len(Record(i).doc.key_fp) = 16
              /\ \A n \in 1..16 : HexVal(Record(i).doc.key_fp[n]) < 16
    /\ \A i, j \in IDs :
          (Readable(i) /\ Readable(j) /\ art[i].master = art[j].master) =>
              Record(i).doc.key_fp = Record(j).doc.key_fp
    /\ (req.op = "decrypt" /\ art[req.id].stored /\ req.master = art[req.id].master) =>
          resp.kind # "KeyMismatch"

\* Two records stored under one secret, for different plaintexts, filenames
\* and IVs, with the same key_fp.
C15_Witness ==
    \E i, j \in IDs :
        /\ Readable(i)
        /\ Readable(j)
        /\ art[i].master = art[j].master
        /\ art[i].plain # art[j].plain
        /\ Record(i).doc.original_filename # Record(j).doc.original_filename
        /\ Record(i).doc.iv_b64 # Record(j).doc.iv_b64
        /\ Record(i).doc.key_fp = Record(j).doc.key_fp

\* C17 (padding on finalize), of SpecStream: when encrypt_fileobj_to_path has
\* returned, bytes_in is the length of the plaintext, bytes_out is
\* (bytes_in div 16 + 1) * 16, which is between 1 and 16 bytes more and a
\* positive multiple of 16, and the ciphertext file holds bytes_out bytes,
\* whatever the chunk size.
C17_PaddingOnFinalize ==
    hs.pc \in {"stored", "dec", "done"} =>
        /\ hs.enc.bytes_in = Len(hs.plain)
        /\ hs.enc.bytes_out = ((hs.enc.bytes_in \div BlockSize) + 1) * BlockSize
        /\ hs.enc.bytes_out - hs.enc.bytes_in \in 1..BlockSize
        /\ hs.enc.bytes_out > 0
        /\ hs.enc.bytes_out % BlockSize = 0
        /\ hs.enc.bytes_out = Len(hs.file)

\* A plaintext of two whole blocks, read in chunks of 5 bytes, has been
\* encrypted to three blocks.
C17_Witness ==
    /\ hs.pc = "stored"
    /\ Len(hs.plain) = 2 * BlockSize
    /\ hs.ce = 5
    /\ Len(hs.file) = 3 * BlockSize
    /\ hs.enc.bytes_out = 3 * BlockSize

\* MAC(key, data): the tag of one MAC computation over data.
Mac(key, data) == HmacFinalize([key |-> key, data |-> data])

\* C18 (MAC coverage and order), of SpecStream: while encrypt runs its MAC
\* has been fed the IV and then the ciphertext written so far, in the order
\* written, and the tag it returns is MAC(macKey, IV || C) for the whole file
\* C; while decrypt runs its MAC has been fed the IV and then the ciphertext
\* read so far, in read order, and at the end it is MAC(macKey, IV || C) and
\* is accepted, whatever the two chunk sizes.
C18_MacCoversIvAndCiphertext ==
    LET mac_key == derive_encryption_and_mac_keys(hs.master)[2]
    IN  /\ hs.pc = "enc" => hs.sess.h = [key |-> mac_key, data |-> hs.iv \o hs.file]
        /\ hs.pc \in {"stored", "dec", "done"} => hs.tag = Mac(mac_key, hs.iv \o hs.file)
        /\ hs.pc = "dec" =>
              hs.sess.h = [key |-> mac_key, data |-> hs.iv \o Take(hs.file, hs.pos)]
        /\ hs.pc = "done" =>
              /\ HmacFinalize(hs.sess.h) = Mac(mac_key, hs.iv \o hs.file)
              /\ hs.res.err = "none"

\* A file of three blocks written in chunks of 17 bytes and read back in
\* chunks of 5 has been verified.
C18_Witness ==
    /\ hs.pc = "done"
    /\ hs.ce = ChunkSize
    /\ hs.cd = 5
    /\ Len(hs.file) = 3 * BlockSize
    /\ hs.res.err = "none"
    /\ hs.tag = HmacFinalize(hs.sess.h)

\* C19 (verify-last ordering): a decrypt that is still reading chunks, or has
\* read the last and not yet finalised, has compared no MAC, while its
\* output may already hold plaintext; a decrypt that has returned has
\* compared at most once, none if finalising the cipher or the unpadder
\* raised, and exactly once if it returned successfully.
C19_VerifyLast ==
    /\ \A p \in Procs : procs[p].pc = "d_loop" => procs[p].sess.verified = 0
    /\ req.op = "decrypt" =>
          /\ req.verified \in {0, 1}
          /\ req.cause \in {"open", "io", "meta", "length", "padding"} => req.verified = 0
          /\ req.cause = "mac" => req.verified = 1
          /\ resp.kind = "ok" => req.verified = 1

\* A decrypt has read the whole ciphertext and written plaintext to its
\* output, and has not compared the MAC yet.
C19_Witness ==
    \E p \in Procs :
        /\ procs[p].pc = "d_loop"
        /\ procs[p].pos = Len(inodes[procs[p].fin])
        /\ procs[p].pos > BlockSize
        /\ procs[p].sess.verified = 0
        /\ Len(inodes[procs[p].fout]) >= BlockSize
        /\ IsPrefix(inodes[procs[p].fout], art[procs[p].id].plain)

\* C20 (padding never reaches the sink), of SpecStream: at every step of
\* decrypt_file_to_path on an untampered ciphertext the output written so
\* far is a prefix of the plaintext and stays at least one block behind the
\* blocks decrypted; when the call has returned the output is the plaintext.
C20_OutputIsPlaintextPrefix ==
    /\ hs.pc = "dec" =>
          /\ IsPrefix(hs.out, hs.plain)
          /\ Len(hs.out) = Max2((hs.pos \div BlockSize) - 1, 0) * BlockSize
    /\ hs.pc = "done" => hs.out = hs.plain

\* Chunks of 5 bytes split the last block of a ciphertext of three blocks:
\* with all of it read, the output holds two blocks of a plaintext of 33
\* bytes and the padded block is still withheld.
C20_Witness ==
    /\ hs.pc = "dec"
    /\ hs.cd = 5
    /\ hs.pos = Len(hs.file)
    /\ Len(hs.file) = 3 * BlockSize
    /\ Len(hs.plain) = 2 * BlockSize + 1
    /\ hs.out = Take(hs.plain, 2 * BlockSize)
    /\ Len(hs.sess.unpad) = BlockSize

\* ---------------------------------------------------------------- claim C21

\* The bytes a pass of the encrypt loop holds: the chunk it reads and what
\* the padder and the encryptor carried into the pass.
EncHeld ==
    Len(Take(Drop(hs.plain, hs.pos), hs.ce)) + Len(hs.sess.pad) + Len(hs.sess.cipher.buf)

\* The bytes a pass of the decrypt loop holds: the chunk it reads, the
\* ciphertext the decryptor carried and the block the unpadder withheld.
DecHeld ==
    Len(Take(Drop(hs.file, hs.pos), hs.cd)) + Len(hs.sess.cipher.buf) + Len(hs.sess.unpad)

\* Between chunks: the padder carries fewer than 16 bytes, the encryptor
\* nothing, and the file holds whole blocks; the unpadder withholds at most
\* one block and the decryptor less than one.
CarryBetweenChunks ==
    /\ hs.pc = "enc" =>
          /\ Len(hs.sess.pad) < BlockSize
          /\ Len(hs.sess.cipher.buf) = 0
          /\ Len(hs.file) % BlockSize = 0
    /\ hs.pc = "dec" =>
          /\ Len(hs.sess.unpad) <= BlockSize
          /\ Len(hs.sess.cipher.buf) < BlockSize

\* C21 as stated: the carries are bounded as above, and the data a pass
\* holds is at most the chunk size plus one block, in encrypt and in decrypt.
C21_HeldWithinOneBlock ==
    /\ CarryBetweenChunks
    /\ hs.pc = "enc" => EncHeld <= hs.ce + BlockSize
    /\ hs.pc = "dec" => DecHeld <= hs.cd + BlockSize

\* C21, amended: the carries are bounded as above; a pass of encrypt holds
\* less than the chunk size plus one block, a pass of decrypt less than the
\* chunk size plus two blocks (the decryptor's partial block of ciphertext and
\* the unpadder's withheld block), whatever the length of the stream.
C21_BoundedCarry ==
    /\ CarryBetweenChunks
    /\ hs.pc = "enc" => EncHeld < hs.ce + BlockSize
    /\ hs.pc = "dec" => DecHeld < hs.cd + 2 * BlockSize

\* A decrypt pass about to hold more than its chunk size plus one block, on
\* a stream longer than the amended bound.
C21_Witness ==
    /\ hs.pc = "dec"
    /\ hs.pos < Len(hs.file)
    /\ Len(hs.sess.unpad) = BlockSize
    /\ DecHeld > hs.cd + BlockSize
    /\ Len(hs.file) > hs.cd + 2 * BlockSize

\* ---------------------------------------------------------------- claim C22

\* The step removes the file at path.
Removes(path) == Exists(names, path) /\ ~Exists(names', path)

\* The step calls os.remove(path): the file was there, and it is gone or the
\* call has raised.
Attempts(path) == Exists(names, path) /\ (Removes(path) \/ nfault' = nfault + 1)

\* C22 (independent sub-removals in delete), an action property: the first
\* step of a delete_by_id attempts the removal of the ciphertext if it is
\* there and goes on to the record whether that removal succeeded or raised;
\* its second step attempts the removal of the record if it is there; each
\* flag of the handler is true exactly when the file was there and the step
\* removed it; and the report returned carries those flags.
C22_IndependentRemovals ==
    [][\A p \in Procs :
          /\ (procs[p].pc = "idle" /\ procs'[p].op = "delete") =>
                /\ procs'[p].pc = "x_meta"
                /\ Exists(names, EncPath(procs'[p].id)) => Attempts(EncPath(procs'[p].id))
                /\ procs'[p].removed.enc = Removes(EncPath(procs'[p].id))
                /\ ~procs'[p].removed.meta
          /\ (procs[p].pc = "x_meta" /\ procs'[p] # procs[p]) =>
                /\ ev'.p = p
                /\ ev'.req.op = "delete"
                /\ Exists(names, MetaPath(procs[p].id)) => Attempts(MetaPath(procs[p].id))
                /\ ev'.req.removed.enc = procs[p].removed.enc
                /\ ev'.req.removed.meta = Removes(MetaPath(procs[p].id))
                /\ ev'.resp.kind = "ok" => ev'.resp.deleted = ev'.req.removed]_vars

\* A delete_by_id has returned whose removal of the ciphertext raised and
\* whose removal of the record succeeded, and has reported just that.
C22_Witness ==
    /\ req.op = "delete"
    /\ req.had.enc /\ ~req.removed.enc
    /\ req.had.meta /\ req.removed.meta
    /\ resp.kind = "ok"
    /\ resp.deleted = [enc |-> FALSE, meta |-> TRUE]
    /\ Exists(names, EncPath(req.id))
    /\ ~Exists(names, MetaPath(req.id))

\* ---------------------------------------------------------------- claim C23

\* C23 (clean-up failures do not mask the original error): when encrypt_file
\* or decrypt_by_id has failed and the removal of its partial output has
\* raised too, the answer is the one of the original failure: 500 StoreFailed
\* or 400 DecryptFailed, carrying the message of the error that made the
\* request fail and not that of the failed removal.
C23_CleanupDoesNotMask ==
    (req.op \in {"encrypt", "decrypt"} /\ req.rmfailed) =>
        /\ req.cause \in {"open", "io", "meta-open", "meta-write", "length", "padding", "mac"}
        /\ resp.detail = req.cause
        /\ resp.kind = IF req.op = "encrypt" THEN "StoreFailed" ELSE "DecryptFailed"
        /\ resp.status = IF req.op = "encrypt" THEN 500 ELSE 400

\* A decrypt_by_id whose MAC comparison failed and whose removal of
\* <id>.dec.tmp raised has been answered with the MAC failure; the output is
\* still in storage.
C23_Witness ==
    /\ req.op = "decrypt"
    /\ req.rmfailed
    /\ req.cause = "mac"
    /\ resp.detail = "mac"
    /\ Exists(names, TmpPath(req.id))

\* ---------------------------------------------------------------- claim C24

\* C24 (concurrent decrypts of one id do not interfere): every
\* decrypt_by_id whose decrypt_file_to_path returned, so that the handler
\* returned its FileResponse, delivers exactly the plaintext of the encrypt,
\* whatever other requests on the same id do in the meantime.
C24_ConcurrentDecryptsIsolated ==
    (req.op = "decrypt" /\ resp.kind \in {"ok", "ServeFailed"}) =>
        /\ resp.kind = "ok"
        /\ resp.body = art[req.id].plain

\* ---------------------------------------------------------------- claim C25

\* The ciphertext encrypt_bytes_aes256_cbc returns for the plaintext, the
\* encryption key and the IV of the engine run.
OneShotCiphertext ==
    encrypt_bytes_aes256_cbc(hs.plain, derive_encryption_and_mac_keys(hs.master)[1], hs.iv)

\* What decrypt_bytes_aes256_cbc returns for the stored ciphertext.
OneShotPlaintext ==
    decrypt_bytes_aes256_cbc(hs.file, derive_encryption_and_mac_keys(hs.master)[1], hs.iv)

\* C25 (streaming equals one-shot): for every chunk size, what the chunked
\* session of encrypt_fileobj_to_path has written so far is a prefix of the
\* ciphertext encrypt_bytes_aes256_cbc computes from the same key, IV and
\* plaintext, and the file it returns on is that ciphertext; and
\* decrypt_file_to_path on it returns without error with the plaintext that
\* decrypt_bytes_aes256_cbc returns.
C25_StreamingEqualsOneShot ==
    /\ hs.pc = "enc" => IsPrefix(hs.file, OneShotCiphertext)
    /\ hs.pc = "stored" => hs.file = OneShotCiphertext
    /\ hs.pc = "done" =>
          /\ hs.res.err = "none"
          /\ OneShotPlaintext.ok
          /\ hs.out = OneShotPlaintext.val

\* Both engines have run over three blocks of ciphertext that the loop of
\* encrypt wrote in several passes and that decrypt read in chunks cut
\* elsewhere; the one-shot functions agree with both.
C25_Witness ==
    /\ hs.pc = "done"
    /\ hs.ce = 5
    /\ hs.cd = BlockSize
    /\ Len(hs.plain) = 2 * BlockSize + 3
    /\ hs.file = OneShotCiphertext
    /\ Len(hs.file) = 3 * BlockSize
    /\ hs.out = OneShotPlaintext.val
    /\ hs.out = hs.plain

\* ---------------------------------------------------------------- claim C26

\* C26 (no plaintext left at rest): when every request has completed no
\* <id>.dec.tmp exists in the storage directory; and when delete_by_id has
\* reported both the ciphertext and the record removed, no file of that id
\* is left.
C26_NoPlaintextAtRest ==
    /\ (\A p \in Procs : procs[p].pc = "idle") =>
          \A id \in IDs : ~Exists(names, TmpPath(id))
    /\ (/\ req.op = "delete"
        /\ resp.kind = "ok"
        /\ resp.deleted = [enc |-> TRUE, meta |-> TRUE]) =>
          \A path \in Paths : path[1] = req.id => ~Exists(names, path)

====
